---- MODULE Spec2Model ----
(***************************************************************************)
(* Model of the set-algebra library: DataSet<T> (DataSet.h / DataSet.hxx), *)
(* instantiated at T = int as main.cxx does.  A DataSet object is a record *)
(* [name, elements]; elements is the std::vector<T> in stored order.       *)
(*                                                                         *)
(* The state is two DataSet<int> objects A and B, built by insert and      *)
(* setName calls, plus the record of the call in progress: the operation,  *)
(* its operands, the operands as they were when it was called, and the     *)
(* value it returned.  Discard is the caller dropping that record and the  *)
(* returned temporary before its next call.                                *)
(*                                                                         *)
(* Spec is a program that uses DataSet<T> alone; SpecC is a program that   *)
(* works through a DataSetCollection<T> (DataSetCollection.hxx); SpecD is  *)
(* the query phase of main (main.cxx) on the collection phase 1 left.      *)
(*                                                                         *)
(* The operator symbols of the derived names (UTF-8 in the source) are     *)
(* written in ASCII here: " u " for the union sign, " n " for the          *)
(* intersection sign, " x " for the multiplication sign.                   *)
(***************************************************************************)
EXTENDS Integers, Sequences, FiniteSets, TLC

\* Element values are 1..MaxVal.
MaxVal == 3

Values == 1..MaxVal

\* Names a caller gives to a set (constructor argument, setName argument).
Names == {"A", "B"}

VARIABLES A, B, op, lhs, rhs, arg, preA, preB,
          resSet, resBool, resSize, resPower, resCart

\* The collection: the deque of registered sets, the names in the order they
\* were first registered, and the record of the call in progress (the call,
\* the deque as it was when called, and what the call returned or threw).
VARIABLES sets, registered, preSets, call, ret

\* The driver's query phase: the lines left after the first "Q", the number
\* of lines read, what was written for each command, and where main is.
VARIABLES script, lineNo, out, pc

setVars == <<A, B, op, lhs, rhs, arg, preA, preB,
             resSet, resBool, resSize, resPower, resCart>>

collVars == <<sets, registered, preSets, call, ret>>

drvVars == <<script, lineNo, out, pc>>

vars == <<A, B, op, lhs, rhs, arg, preA, preB,
          resSet, resBool, resSize, resPower, resCart,
          sets, registered, preSets, call, ret,
          script, lineNo, out, pc>>

----------------------------------------------------------------------------
(* DataSet<T>: the methods, as pure operators on the object's value.       *)

DataSet(setName) == [name |-> setName, elements |-> <<>>]

getName(S) == S.name

setName(S, newName) == [S EXCEPT !.name = newName]

getElements(S) == S.elements

\* The while loop of contains: scan from position i for an element == value.
RECURSIVE containsFrom(_, _, _)
containsFrom(elems, i, value) ==
    IF i > Len(elems) THEN FALSE
    ELSE IF elems[i] = value THEN TRUE
    ELSE containsFrom(elems, i + 1, value)

contains(S, value) == containsFrom(S.elements, 1, value)

\* mutant: the membership test is inverted
insertInverted(S, value) ==
    IF contains(S, value)
    THEN [S EXCEPT !.elements = Append(@, value)]
    ELSE S

\* mutant: push_back without the membership test
insertNoCheck(S, value) == [S EXCEPT !.elements = Append(@, value)]

insert(S, value) ==
    IF ~contains(S, value)
    THEN [S EXCEPT !.elements = Append(@, value)]
    ELSE S

\* size() is `return 1;` in the source.
size(S) == 1

\* A loop "for each element of elems from position i: result.insert(it)".
RECURSIVE insertLoop(_, _, _)
insertLoop(result, elems, i) ==
    IF i > Len(elems) THEN result
    ELSE insertLoop(insert(result, elems[i]), elems, i + 1)

\* A loop "for each element of elems from position i:
\*         if (other.contains(val) == keep) result.insert(val)".
RECURSIVE filterLoop(_, _, _, _, _)
filterLoop(result, elems, i, other, keep) ==
    IF i > Len(elems) THEN result
    ELSE filterLoop(IF contains(other, elems[i]) = keep
                    THEN insert(result, elems[i])
                    ELSE result,
                    elems, i + 1, other, keep)

\* mutant: the loop over other's elements is missing
unionWithFirstOnly(this, other) ==
    insertLoop(DataSet(getName(this) \o " u " \o getName(other)),
               this.elements, 1)

unionWith(this, other) ==
    LET result == DataSet(getName(this) \o " u " \o getName(other))
        afterA == insertLoop(result, this.elements, 1)
        elemsB == getElements(other)
    IN  insertLoop(afterA, elemsB, 1)

\* mutant: intersectionWith keeps every element of this
intersectionWithAll(this, other) ==
    insertLoop(DataSet(getName(this) \o " n " \o getName(other)),
               this.elements, 1)

intersectionWith(this, other) ==
    LET result == DataSet(getName(this) \o " n " \o getName(other))
    IN  filterLoop(result, this.elements, 1, other, TRUE)

\* mutant: the test `!other.contains(val)` lost its negation
differenceWithInverted(this, other) ==
    LET result == DataSet(getName(this) \o "-" \o getName(other))
    IN  filterLoop(result, this.elements, 1, other, TRUE)

differenceWith(this, other) ==
    LET result == DataSet(getName(this) \o "-" \o getName(other))
    IN  filterLoop(result, this.elements, 1, other, FALSE)

\* mutant: the second loop tests other.contains(valB) instead of
\* this->contains(valB)
symmetricDifferenceWithWrongSet(this, other) ==
    LET result == DataSet(getName(this) \o " symmetric_difference "
                          \o getName(other))
        afterA == filterLoop(result, this.elements, 1, other, FALSE)
        elemsB == getElements(other)
    IN  filterLoop(afterA, elemsB, 1, other, FALSE)

symmetricDifferenceWith(this, other) ==
    LET result == DataSet(getName(this) \o " symmetric_difference "
                          \o getName(other))
        afterA == filterLoop(result, this.elements, 1, other, FALSE)
        elemsB == getElements(other)
    IN  filterLoop(afterA, elemsB, 1, this, FALSE)

\* The while loop of isSubsetOf over a copy of this's elements.
RECURSIVE subsetLoop(_, _, _)
subsetLoop(elems, i, other) ==
    IF i > Len(elems) THEN TRUE
    ELSE IF ~contains(other, elems[i]) THEN FALSE
    ELSE subsetLoop(elems, i + 1, other)

isSubsetOf(this, other) == subsetLoop(getElements(this), 1, other)

\* mutant: the element vectors are compared position by position
isEqualToStructural(this, other) == this.elements = other.elements

\* mutant: only one inclusion is tested
isEqualToOneWay(this, other) == isSubsetOf(this, other)

isEqualTo(this, other) == isSubsetOf(this, other) /\ isSubsetOf(other, this)

\* operator==(a, b)
OperatorEq(a, b) == isEqualTo(a, b)

\* powerSet() constructs the named result and returns it unfilled.
powerSet(this) == DataSet(getName(this) \o " Power Set")

\* cartesianProductWith() constructs the named result and returns it unfilled.
cartesianProductWith(this, other) ==
    DataSet(getName(this) \o " x " \o getName(other))

----------------------------------------------------------------------------
(* The calls.                                                              *)

Operands == {"A", "B"}

obj(x) == IF x = "A" THEN A ELSE B

AlgebraicOps == {"unionWith", "intersectionWith", "differenceWith",
                 "symmetricDifferenceWith"}

BinaryOps == AlgebraicOps \cup
             {"isSubsetOf", "isEqualTo", "operator==", "cartesianProductWith"}

NoSet == DataSet("")

\* No call on the collection is recorded.
NoCall == [op |-> "none", nameA |-> "", nameB |-> "", keyword |-> "",
           value |-> 0]

\* Nothing returned, nothing thrown.
NoRet == [thrown |-> FALSE, what |-> "", value |-> 0, alias |-> 0]

\* No collection and no script: the state of a program that uses DataSet<T>
\* alone.
NoCollection ==
    /\ sets = <<>>
    /\ registered = <<>>
    /\ preSets = <<>>
    /\ call = NoCall
    /\ ret = NoRet

NoDriver ==
    /\ script = <<>>
    /\ lineNo = 0
    /\ out = <<>>
    /\ pc = "off"

\* What every call records: operation, operands, operand objects at the call.
\* A DataSet<T> method touches no collection.
Called(o, x, y, v) ==
    /\ op' = o
    /\ lhs' = x
    /\ rhs' = y
    /\ arg' = v
    /\ preA' = A
    /\ preB' = B
    /\ UNCHANGED <<collVars, drvVars>>

NoResult ==
    /\ resSet' = NoSet
    /\ resBool' = FALSE
    /\ resSize' = 0
    /\ resPower' = NoSet
    /\ resCart' = NoSet

Init ==
    /\ A = DataSet("A")
    /\ B = DataSet("B")
    /\ op = "none"
    /\ lhs = "-"
    /\ rhs = "-"
    /\ arg = 0
    /\ preA = A
    /\ preB = B
    /\ resSet = NoSet
    /\ resBool = FALSE
    /\ resSize = 0
    /\ resPower = NoSet
    /\ resCart = NoSet
    /\ NoCollection
    /\ NoDriver

\* Between calls: no call record is held.
Idle == op = "none"

\* x.insert(v)
Insert(x, v) ==
    /\ Idle
    /\ Called("insert", x, "-", v)
    /\ A' = IF x = "A" THEN insert(A, v) ELSE A
    /\ B' = IF x = "B" THEN insert(B, v) ELSE B
    /\ NoResult

\* x.setName(n)
SetName(x, n) ==
    /\ Idle
    /\ Called("setName", x, "-", 0)
    /\ A' = IF x = "A" THEN setName(A, n) ELSE A
    /\ B' = IF x = "B" THEN setName(B, n) ELSE B
    /\ NoResult

\* mutant: the union is accumulated into the receiver
UnionWithInPlace(x, y) ==
    /\ Idle
    /\ Called("unionWith", x, y, 0)
    /\ resSet' = unionWith(obj(x), obj(y))
    /\ A' = IF x = "A" THEN [A EXCEPT !.elements = resSet'.elements] ELSE A
    /\ B' = IF x = "B" THEN [B EXCEPT !.elements = resSet'.elements] ELSE B
    /\ UNCHANGED <<resBool, resSize, resPower, resCart>>

UnionWith(x, y) ==
    /\ Idle
    /\ Called("unionWith", x, y, 0)
    /\ resSet' = unionWith(obj(x), obj(y))
    /\ UNCHANGED <<A, B, resBool, resSize, resPower, resCart>>

IntersectionWith(x, y) ==
    /\ Idle
    /\ Called("intersectionWith", x, y, 0)
    /\ resSet' = intersectionWith(obj(x), obj(y))
    /\ UNCHANGED <<A, B, resBool, resSize, resPower, resCart>>

DifferenceWith(x, y) ==
    /\ Idle
    /\ Called("differenceWith", x, y, 0)
    /\ resSet' = differenceWith(obj(x), obj(y))
    /\ UNCHANGED <<A, B, resBool, resSize, resPower, resCart>>

SymmetricDifferenceWith(x, y) ==
    /\ Idle
    /\ Called("symmetricDifferenceWith", x, y, 0)
    /\ resSet' = symmetricDifferenceWith(obj(x), obj(y))
    /\ UNCHANGED <<A, B, resBool, resSize, resPower, resCart>>

IsSubsetOf(x, y) ==
    /\ Idle
    /\ Called("isSubsetOf", x, y, 0)
    /\ resBool' = isSubsetOf(obj(x), obj(y))
    /\ UNCHANGED <<A, B, resSet, resSize, resPower, resCart>>

IsEqualTo(x, y) ==
    /\ Idle
    /\ Called("isEqualTo", x, y, 0)
    /\ resBool' = isEqualTo(obj(x), obj(y))
    /\ UNCHANGED <<A, B, resSet, resSize, resPower, resCart>>

EqualsOperator(x, y) ==
    /\ Idle
    /\ Called("operator==", x, y, 0)
    /\ resBool' = OperatorEq(obj(x), obj(y))
    /\ UNCHANGED <<A, B, resSet, resSize, resPower, resCart>>

\* x.size() on one of the two sets
Size(x) ==
    /\ Idle
    /\ Called("size", x, "-", 0)
    /\ resSize' = size(obj(x))
    /\ UNCHANGED <<A, B, resSet, resBool, resPower, resCart>>

\* size() on the set an algebraic operation has just returned
SizeOfResult ==
    /\ op \in AlgebraicOps
    /\ op' = "resultSize"
    /\ resSize' = size(resSet)
    /\ UNCHANGED <<A, B, lhs, rhs, arg, preA, preB,
                   resSet, resBool, resPower, resCart>>
    /\ UNCHANGED <<collVars, drvVars>>

PowerSet(x) ==
    /\ Idle
    /\ Called("powerSet", x, "-", 0)
    /\ resPower' = powerSet(obj(x))
    /\ UNCHANGED <<A, B, resSet, resBool, resSize, resCart>>

CartesianProductWith(x, y) ==
    /\ Idle
    /\ Called("cartesianProductWith", x, y, 0)
    /\ resCart' = cartesianProductWith(obj(x), obj(y))
    /\ UNCHANGED <<A, B, resSet, resBool, resSize, resPower>>

\* x.symmetricDifferenceWith(y).isEqualTo(
\*     x.unionWith(y).differenceWith(x.intersectionWith(y)))
SymmetricDifferenceIdentity(x, y) ==
    /\ Idle
    /\ Called("symmetricDifferenceIdentity", x, y, 0)
    /\ resBool' = isEqualTo(symmetricDifferenceWith(obj(x), obj(y)),
                            differenceWith(unionWith(obj(x), obj(y)),
                                           intersectionWith(obj(x), obj(y))))
    /\ UNCHANGED <<A, B, resSet, resSize, resPower, resCart>>

\* x.unionWith(y).isEqualTo(y.unionWith(x))
UnionCommutes(x, y) ==
    /\ Idle
    /\ Called("unionCommutes", x, y, 0)
    /\ resBool' = isEqualTo(unionWith(obj(x), obj(y)),
                            unionWith(obj(y), obj(x)))
    /\ UNCHANGED <<A, B, resSet, resSize, resPower, resCart>>

\* x.intersectionWith(y).isEqualTo(y.intersectionWith(x))
IntersectionCommutes(x, y) ==
    /\ Idle
    /\ Called("intersectionCommutes", x, y, 0)
    /\ resBool' = isEqualTo(intersectionWith(obj(x), obj(y)),
                            intersectionWith(obj(y), obj(x)))
    /\ UNCHANGED <<A, B, resSet, resSize, resPower, resCart>>

\* The caller drops the call record; a returned temporary goes out of scope.
Discard ==
    /\ ~Idle
    /\ op' = "none"
    /\ lhs' = "-"
    /\ rhs' = "-"
    /\ arg' = 0
    /\ preA' = A
    /\ preB' = B
    /\ NoResult
    /\ UNCHANGED <<A, B>>
    /\ UNCHANGED <<collVars, drvVars>>

Next ==
    \/ \E x \in Operands, v \in Values : Insert(x, v)
    \/ \E x \in Operands, n \in Names : SetName(x, n)
    \/ \E x \in Operands, y \in Operands : UnionWith(x, y)
    \/ \E x \in Operands, y \in Operands : IntersectionWith(x, y)
    \/ \E x \in Operands, y \in Operands : DifferenceWith(x, y)
    \/ \E x \in Operands, y \in Operands : SymmetricDifferenceWith(x, y)
    \/ \E x \in Operands, y \in Operands : IsSubsetOf(x, y)
    \/ \E x \in Operands, y \in Operands : IsEqualTo(x, y)
    \/ \E x \in Operands, y \in Operands : EqualsOperator(x, y)
    \/ \E x \in Operands : Size(x)
    \/ SizeOfResult
    \/ \E x \in Operands : PowerSet(x)
    \/ \E x \in Operands, y \in Operands : CartesianProductWith(x, y)
    \/ \E x \in Operands, y \in Operands : SymmetricDifferenceIdentity(x, y)
    \/ \E x \in Operands, y \in Operands : UnionCommutes(x, y)
    \/ \E x \in Operands, y \in Operands : IntersectionCommutes(x, y)
    \/ Discard

Spec == Init /\ [][Next]_vars

----------------------------------------------------------------------------
(* DataSetCollection<T>: the methods, as operators on the deque `sets`     *)
(* (passed as this).  A method that can throw yields Throw(what) or        *)
(* Return(value); std::runtime_error is told apart by its message only.    *)

\* Element values of the sets in a collection are 1..MaxElem.
MaxElem == 2

\* The value lists a caller inserts into a set before addSet have at most
\* MaxInput entries (repetitions allowed).
MaxInput == 2

\* The script of the query phase has at most MaxScript lines.
MaxScript == 2

ElemValues == 1..MaxElem

\* Names looked up: the names that get registered and one that never is.
LookupNames == Names \cup {"Z"}

Throw(what) == [thrown |-> TRUE, what |-> what, value |-> 0, alias |-> 0]

Return(value) == [thrown |-> FALSE, what |-> "", value |-> value, alias |-> 0]

\* "Set '<name>' not found."
NotFound(name) == "Set '" \o name \o "' not found."

\* "Invalid operation: '<op>'"
InvalidOperation(keyword) == "Invalid operation: '" \o keyword \o "'"

\* "Unsupported unary operation: '<op>'"
UnsupportedUnary(keyword) == "Unsupported unary operation: '" \o keyword \o "'"

\* The for loop of findIndexByName from position i (0-based, as in the source).
RECURSIVE findIndexFrom(_, _, _)
findIndexFrom(this, i, name) ==
    IF i >= Len(this) THEN -1
    ELSE IF getName(this[i + 1]) = name THEN i
    ELSE findIndexFrom(this, i + 1, name)

findIndexByName(this, name) == findIndexFrom(this, 0, name)

\* mutant: always push_back
addSetAppend(this, set) == Append(this, set)

\* mutant: the new set's elements are inserted into the registered one
addSetMerge(this, set) ==
    LET index == findIndexByName(this, getName(set))
    IN  IF index # -1
        THEN [this EXCEPT ![index + 1] = insertLoop(@, set.elements, 1)]
        ELSE Append(this, set)

addSet(this, set) ==
    LET index == findIndexByName(this, getName(set))
    IN  IF index # -1
        THEN [this EXCEPT ![index + 1] = set]
        ELSE Append(this, set)

hasSet(this, name) == findIndexByName(this, name) # -1

\* mutant: a missing name is created instead of reported
insertIntoCreating(this, name, value) ==
    LET index == findIndexByName(this, name)
    IN  IF index = -1
        THEN [sets |-> Append(this, insert(DataSet(name), value)),
              ret |-> Return(0)]
        ELSE [sets |-> [this EXCEPT ![index + 1] = insert(@, value)],
              ret |-> Return(0)]

\* insertInto changes the deque or throws: it yields the deque and the outcome.
insertInto(this, name, value) ==
    LET index == findIndexByName(this, name)
    IN  IF index = -1
        THEN [sets |-> this, ret |-> Throw(NotFound(name))]
        ELSE [sets |-> [this EXCEPT ![index + 1] = insert(@, value)],
              ret |-> Return(0)]

\* mutant: the registered set itself is returned (DataSet<T>&)
getSetByReference(this, name) ==
    LET index == findIndexByName(this, name)
    IN  IF index = -1
        THEN Throw(NotFound(name))
        ELSE [Return(this[index + 1]) EXCEPT !.alias = index + 1]

\* mutant: a missing name yields an empty set of that name
getSetOrEmpty(this, name) ==
    LET index == findIndexByName(this, name)
    IN  IF index = -1
        THEN Return(DataSet(name))
        ELSE Return(this[index + 1])

\* getSet returns DataSet<T> by value: a copy, alias 0.
getSet(this, name) ==
    LET index == findIndexByName(this, name)
    IN  IF index = -1
        THEN Throw(NotFound(name))
        ELSE Return(this[index + 1])

getSetNames(this) == [i \in 1..Len(this) |-> getName(this[i])]

\* The if/else chain of operate on the two copies.
dispatch(setA, keyword, setB) ==
    IF keyword = "union" THEN Return(unionWith(setA, setB))
    ELSE IF keyword = "intersection" THEN Return(intersectionWith(setA, setB))
    ELSE IF keyword = "difference" THEN Return(differenceWith(setA, setB))
    ELSE IF keyword = "symmetric_difference"
         THEN Return(symmetricDifferenceWith(setA, setB))
    ELSE Throw(InvalidOperation(keyword))

\* "(nameA op nameB)"
canonicalName(nameA, keyword, nameB) ==
    "(" \o nameA \o " " \o keyword \o " " \o nameB \o ")"

\* mutant: the operands are passed in the wrong order
operateSwapped(this, nameA, keyword, nameB) ==
    LET rA == getSet(this, nameA)
        rB == getSet(this, nameB)
    IN  IF rA.thrown THEN rA
        ELSE IF rB.thrown THEN rB
        ELSE LET r == dispatch(rB.value, keyword, rA.value)
             IN  IF r.thrown THEN r
                 ELSE Return(setName(r.value,
                                     canonicalName(nameA, keyword, nameB)))

\* mutant: the keyword is examined before the names are resolved
operateKeywordFirst(this, nameA, keyword, nameB) ==
    IF keyword \notin {"union", "intersection", "difference",
                       "symmetric_difference"}
    THEN Throw(InvalidOperation(keyword))
    ELSE LET rA == getSet(this, nameA)
             rB == getSet(this, nameB)
         IN  IF rA.thrown THEN rA
             ELSE IF rB.thrown THEN rB
             ELSE LET r == dispatch(rA.value, keyword, rB.value)
                  IN  Return(setName(r.value,
                                     canonicalName(nameA, keyword, nameB)))

operate(this, nameA, keyword, nameB) ==
    LET rA == getSet(this, nameA)
        rB == getSet(this, nameB)
    IN  IF rA.thrown THEN rA
        ELSE IF rB.thrown THEN rB
        ELSE LET r == dispatch(rA.value, keyword, rB.value)
             IN  IF r.thrown THEN r
                 ELSE Return(setName(r.value,
                                     canonicalName(nameA, keyword, nameB)))

operateUnarySet(this, name, keyword) ==
    LET rA == getSet(this, name)
    IN  IF rA.thrown THEN rA
        ELSE IF keyword = "powerset" THEN Return(powerSet(rA.value))
        ELSE Throw(UnsupportedUnary(keyword))

cartesianProduct(this, nameA, nameB) ==
    LET rA == getSet(this, nameA)
        rB == getSet(this, nameB)
    IN  IF rA.thrown THEN rA
        ELSE IF rB.thrown THEN rB
        ELSE Return(cartesianProductWith(rA.value, rB.value))

----------------------------------------------------------------------------
(* The calls on a collection.                                              *)

\* No free-standing DataSet<T> objects: the state of a program that works
\* through the collection alone.
NoObjects ==
    /\ A = NoSet
    /\ B = NoSet
    /\ op = "none"
    /\ lhs = "-"
    /\ rhs = "-"
    /\ arg = 0
    /\ preA = NoSet
    /\ preB = NoSet
    /\ resSet = NoSet
    /\ resBool = FALSE
    /\ resSize = 0
    /\ resPower = NoSet
    /\ resCart = NoSet

\* The value lists of at most MaxInput entries.
InputLists == UNION {[1..n -> ElemValues] : n \in 0..MaxInput}

BinaryKeywords == {"union", "intersection", "difference",
                   "symmetric_difference"}

\* The keywords a caller passes: the recognized ones and "xor".
Keywords == BinaryKeywords \cup {"xor"}

UnaryKeywords == {"powerset", "xor"}

InitC ==
    /\ NoObjects
    /\ NoCollection
    /\ NoDriver

\* Between calls: no call record is held.
CIdle == call.op = "none"

\* What every call on the collection records.
CCalled(o, a, k, b, v) ==
    /\ call' = [op |-> o, nameA |-> a, nameB |-> b, keyword |-> k, value |-> v]
    /\ preSets' = sets
    /\ UNCHANGED <<setVars, drvVars>>

\* A set named n is built from a value list by insert, as main does, and
\* passed to addSet.
AddSet(n, values) ==
    LET set == insertLoop(DataSet(n), values, 1)
    IN  /\ CIdle
        /\ CCalled("addSet", n, "", "", set)
        /\ sets' = addSet(sets, set)
        /\ registered' = IF \E i \in 1..Len(registered) : registered[i] = n
                         THEN registered
                         ELSE Append(registered, n)
        /\ ret' = Return(0)

InsertInto(n, v) ==
    LET r == insertInto(sets, n, v)
    IN  /\ CIdle
        /\ CCalled("insertInto", n, "", "", v)
        /\ sets' = r.sets
        /\ ret' = r.ret
        /\ UNCHANGED registered

HasSet(n) ==
    /\ CIdle
    /\ CCalled("hasSet", n, "", "", 0)
    /\ ret' = Return(hasSet(sets, n))
    /\ UNCHANGED <<sets, registered>>

GetSet(n) ==
    /\ CIdle
    /\ CCalled("getSet", n, "", "", 0)
    /\ ret' = getSet(sets, n)
    /\ UNCHANGED <<sets, registered>>

GetSetNames ==
    /\ CIdle
    /\ CCalled("getSetNames", "", "", "", 0)
    /\ ret' = Return(getSetNames(sets))
    /\ UNCHANGED <<sets, registered>>

Operate(a, k, b) ==
    /\ CIdle
    /\ CCalled("operate", a, k, b, 0)
    /\ ret' = operate(sets, a, k, b)
    /\ UNCHANGED <<sets, registered>>

OperateUnarySet(n, k) ==
    /\ CIdle
    /\ CCalled("operateUnarySet", n, k, "", 0)
    /\ ret' = operateUnarySet(sets, n, k)
    /\ UNCHANGED <<sets, registered>>

CartesianProduct(a, b) ==
    /\ CIdle
    /\ CCalled("cartesianProduct", a, "", b, 0)
    /\ ret' = cartesianProduct(sets, a, b)
    /\ UNCHANGED <<sets, registered>>

\* The caller inserts v into the set getSet returned.  A returned object that
\* aliased a registered set (alias # 0) would change with it.
InsertIntoReturned(v) ==
    /\ call.op = "getSet"
    /\ ~ret.thrown
    /\ call' = [call EXCEPT !.op = "insertIntoReturned", !.value = v]
    /\ ret' = [ret EXCEPT !.value = insert(@, v)]
    /\ sets' = IF ret.alias # 0
               THEN [sets EXCEPT ![ret.alias] = insert(@, v)]
               ELSE sets
    /\ UNCHANGED <<registered, preSets, setVars, drvVars>>

\* The caller renames the set getSet returned.
RenameReturned(n) ==
    /\ call.op = "getSet"
    /\ ~ret.thrown
    /\ call' = [call EXCEPT !.op = "renameReturned", !.value = n]
    /\ ret' = [ret EXCEPT !.value = setName(@, n)]
    /\ sets' = IF ret.alias # 0
               THEN [sets EXCEPT ![ret.alias] = setName(@, n)]
               ELSE sets
    /\ UNCHANGED <<registered, preSets, setVars, drvVars>>

\* The caller drops the call record and what was returned or caught.
CDiscard ==
    /\ ~CIdle
    /\ call' = NoCall
    /\ ret' = NoRet
    /\ preSets' = sets
    /\ UNCHANGED <<sets, registered, setVars, drvVars>>

NextC ==
    \/ \E n \in Names, values \in InputLists : AddSet(n, values)
    \/ \E n \in LookupNames, v \in ElemValues : InsertInto(n, v)
    \/ \E n \in LookupNames : HasSet(n)
    \/ \E n \in LookupNames : GetSet(n)
    \/ GetSetNames
    \/ \E a \in LookupNames, k \in Keywords, b \in LookupNames : Operate(a, k, b)
    \/ \E n \in LookupNames, k \in UnaryKeywords : OperateUnarySet(n, k)
    \/ \E a \in LookupNames, b \in LookupNames : CartesianProduct(a, b)
    \/ \E v \in ElemValues : InsertIntoReturned(v)
    \/ \E n \in LookupNames : RenameReturned(n)
    \/ CDiscard

SpecC == InitC /\ [][NextC]_vars

----------------------------------------------------------------------------
(* main: the query phase (the second while loop).  A script line is the    *)
(* record of its words: [word, nameA, nameB]; word "" is an empty line,    *)
(* "#" a comment line, "Q" the line "Q".  What a command writes is recorded *)
(* in out as [line, stream, text, value]: the text of an error message, or *)
(* the value printed.                                                      *)

Line(word, a, b) == [word |-> word, nameA |-> a, nameB |-> b]

\* The command words with two names, and those with one.
BinaryWords == BinaryKeywords \cup {"issubset", "isequal", "cartesian"}

UnaryWords == {"print", "size", "powerset"}

\* The lines a script is made of.  The commands name A and B; A is always
\* registered, B is registered in one of the initial collections only.
ScriptLines ==
    {Line(w, "A", "B") : w \in BinaryWords \cup {"xor"}}
        \cup {Line(w, n, "") : w \in UnaryWords, n \in Names}
        \cup {Line("", "", ""), Line("#", "", ""), Line("Q", "", "")}

Scripts == UNION {[1..n -> ScriptLines] : n \in 0..MaxScript}

\* What phase 1 leaves: the collection after the set definitions
\* "A 2 / 1 2 / B 1 / 2", and after "A 1 / 1" alone.
Phase1Collections ==
    {addSet(addSet(<<>>, insertLoop(DataSet("A"), <<1, 2>>, 1)),
            insertLoop(DataSet("B"), <<2>>, 1)),
     addSet(<<>>, insertLoop(DataSet("A"), <<1>>, 1))}

InitD ==
    /\ NoObjects
    /\ sets \in Phase1Collections
    /\ registered = getSetNames(sets)
    /\ preSets = sets
    /\ call = NoCall
    /\ ret = NoRet
    /\ script \in Scripts
    /\ lineNo = 0
    /\ out = <<>>
    /\ pc = "query"

\* getline succeeded: this is the line it read.
Current == script[lineNo + 1]

HasLine == pc = "query" /\ lineNo < Len(script)

Cout(value) == [line |-> lineNo + 1, stream |-> "cout", text |-> "",
                value |-> value]

Cerr(text) == [line |-> lineNo + 1, stream |-> "cerr", text |-> text,
               value |-> 0]

\* mutant: the size branch has no try/catch
CatchesAllButSize(word) == word # "size"

\* The branches that call a throwing method do so inside
\* try { } catch (const std::exception &).
Catches(word) == TRUE

\* A command has run the collection call r: its output is written, or the
\* exception is caught and reported with the branch's prefix; an exception no
\* handler catches ends the program.  The returned value is written and
\* destroyed inside the try block: ret keeps the outcome only.
Ran(word, r, prefix, value) ==
    /\ lineNo' = lineNo + 1
    /\ preSets' = sets
    /\ ret' = [r EXCEPT !.value = 0]
    /\ call' = [op |-> word, nameA |-> Current.nameA, nameB |-> Current.nameB,
                keyword |-> word, value |-> 0]
    /\ IF ~r.thrown
       THEN out' = Append(out, Cout(value)) /\ pc' = "query"
       ELSE IF Catches(word)
       THEN out' = Append(out, Cerr(prefix \o r.what)) /\ pc' = "query"
       ELSE out' = out /\ pc' = "aborted"
    /\ UNCHANGED <<sets, registered, script, setVars>>

\* An empty line or a comment line: continue.
SkipLine ==
    /\ HasLine
    /\ Current.word \in {"", "#"}
    /\ lineNo' = lineNo + 1
    /\ UNCHANGED <<sets, registered, preSets, call, ret, script, out, pc,
                   setVars>>

\* The line "Q": break.
QuitLine ==
    /\ HasLine
    /\ Current.word = "Q"
    /\ lineNo' = lineNo + 1
    /\ pc' = "done"
    /\ UNCHANGED <<sets, registered, preSets, call, ret, script, out, setVars>>

\* getline fails at the end of the file: the loop ends.
EndOfFile ==
    /\ pc = "query"
    /\ lineNo = Len(script)
    /\ pc' = "done"
    /\ UNCHANGED <<sets, registered, preSets, call, ret, script, lineNo, out,
                   setVars>>

\* print <A>: printSet writes the set, or its own message when the name is
\* not registered; it does not throw.
PrintCmd ==
    /\ HasLine
    /\ Current.word = "print"
    /\ LET index == findIndexByName(sets, Current.nameA)
       IN  IF index = -1
           THEN out' = Append(out, Cerr(NotFound(Current.nameA)))
           ELSE out' = Append(out, Cout(sets[index + 1]))
    /\ lineNo' = lineNo + 1
    /\ preSets' = sets
    /\ call' = [op |-> "print", nameA |-> Current.nameA, nameB |-> "",
                keyword |-> "print", value |-> 0]
    /\ ret' = NoRet
    /\ UNCHANGED <<sets, registered, script, pc, setVars>>

\* union | intersection | difference | symmetric_difference <A> <B>
BinaryCmd ==
    /\ HasLine
    /\ Current.word \in BinaryKeywords
    /\ LET r == operate(sets, Current.nameA, Current.word, Current.nameB)
       IN  Ran(Current.word, r, "Error: ", r.value)

\* issubset <A> <B>
IsSubsetCmd ==
    /\ HasLine
    /\ Current.word = "issubset"
    /\ LET rA == getSet(sets, Current.nameA)
           rB == getSet(sets, Current.nameB)
           r == IF rA.thrown THEN rA
                ELSE IF rB.thrown THEN rB
                ELSE Return(isSubsetOf(rA.value, rB.value))
       IN  Ran("issubset", r, "Error during issubset: ", r.value)

\* isequal <A> <B>
IsEqualCmd ==
    /\ HasLine
    /\ Current.word = "isequal"
    /\ LET rA == getSet(sets, Current.nameA)
           rB == getSet(sets, Current.nameB)
           r == IF rA.thrown THEN rA
                ELSE IF rB.thrown THEN rB
                ELSE Return(isEqualTo(rA.value, rB.value))
       IN  Ran("isequal", r, "Error during isequal: ", r.value)

\* size <A>
SizeCmd ==
    /\ HasLine
    /\ Current.word = "size"
    /\ LET rA == getSet(sets, Current.nameA)
           r == IF rA.thrown THEN rA ELSE Return(size(rA.value))
       IN  Ran("size", r, "Error during size: ", r.value)

\* powerset <A>
PowerSetCmd ==
    /\ HasLine
    /\ Current.word = "powerset"
    /\ LET r == operateUnarySet(sets, Current.nameA, "powerset")
       IN  Ran("powerset", r, "Error during powerset: ", r.value)

\* cartesian <A> <B>
CartesianCmd ==
    /\ HasLine
    /\ Current.word = "cartesian"
    /\ LET r == cartesianProduct(sets, Current.nameA, Current.nameB)
       IN  Ran("cartesian", r, "Error during cartesian product: ", r.value)

\* Any other word: "Unknown operation: <op>".
UnknownCmd ==
    /\ HasLine
    /\ Current.word \notin BinaryWords \cup UnaryWords \cup {"", "#", "Q"}
    /\ out' = Append(out, Cerr("Unknown operation: " \o Current.word))
    /\ lineNo' = lineNo + 1
    /\ preSets' = sets
    /\ call' = [op |-> Current.word, nameA |-> "", nameB |-> "",
                keyword |-> Current.word, value |-> 0]
    /\ ret' = NoRet
    /\ UNCHANGED <<sets, registered, script, pc, setVars>>

NextD ==
    \/ SkipLine
    \/ QuitLine
    \/ EndOfFile
    \/ PrintCmd
    \/ BinaryCmd
    \/ IsSubsetCmd
    \/ IsEqualCmd
    \/ SizeCmd
    \/ PowerSetCmd
    \/ CartesianCmd
    \/ UnknownCmd

SpecD == InitD /\ [][NextD]_vars

\* main runs on: each iteration of the loop is taken while one is possible.
\* Every step of the loop advances lineNo or pc.
FairSpecD == SpecD /\ WF_<<lineNo, pc>>(NextD)

----------------------------------------------------------------------------
(* Properties of DataSet<T>.                                               *)

Range(s) == {s[i] : i \in 1..Len(s)}

NoDuplicates(s) == \A i, j \in 1..Len(s) : s[i] = s[j] => i = j

\* The operands of the recorded call, as they were when it was made.
preObj(x) == IF x = "A" THEN preA ELSE preB

\* The subsequence of s whose elements are (keep = TRUE) or are not
\* (keep = FALSE) members of the set m.
Sub(s, m, keep) == SelectSeq(s, LAMBDA e : (e \in m) = keep)

Overlap(x, y) == Range(x.elements) \cap Range(y.elements)

\* C1: no two stored elements of a set compare equal, in the sets built by
\* insert and in the set returned by every algebraic operation.
C1_NoDuplicates ==
    /\ NoDuplicates(A.elements)
    /\ NoDuplicates(B.elements)
    /\ NoDuplicates(resSet.elements)

\* A union of two overlapping sets with different contents has been returned.
C1_Witness ==
    /\ op = "unionWith"
    /\ lhs # rhs
    /\ Overlap(preA, preB) # {}
    /\ Range(preObj(rhs).elements) \ Range(preObj(lhs).elements) # {}
    /\ Len(resSet.elements) = 3

\* C2: after S.insert(v), S.contains(v) holds and the size (size() as well as
\* the number of stored elements) has grown by at most 1; if v was contained
\* before, the object is unchanged.
C2_InsertContract ==
    op = "insert" =>
        LET pre == preObj(lhs)
            post == obj(lhs)
        IN  /\ contains(post, arg)
            /\ size(post) <= size(pre) + 1
            /\ Len(post.elements) >= Len(pre.elements)
            /\ Len(post.elements) <= Len(pre.elements) + 1
            /\ contains(pre, arg) =>
                   /\ post.elements = pre.elements
                   /\ size(post) = size(pre)
                   /\ post = pre

\* An insert of a value the set already held, into a set of two or more.
C2_Witness ==
    /\ op = "insert"
    /\ contains(preObj(lhs), arg)
    /\ Len(obj(lhs).elements) >= 2

\* C3: size() returns the number of stored elements, for the sets built by
\* insert and for the set returned by an algebraic operation.
C3_SizeIsLength ==
    /\ op = "size" => resSize = Len(obj(lhs).elements)
    /\ op = "resultSize" => resSize = Len(resSet.elements)

\* 2^n
RECURSIVE Pow2(_)
Pow2(n) == IF n = 0 THEN 1 ELSE 2 * Pow2(n - 1)

\* C4: the power set of an n-element set has exactly 2^n elements, pairwise
\* unequal as sets, each a subset of the set, the empty set and the set itself
\* among them.
C4_PowerSetComplete ==
    op = "powerSet" =>
        LET X == preObj(lhs)
            P == resPower.elements
        IN  /\ Len(P) = Pow2(Len(X.elements))
            /\ \A i, j \in 1..Len(P) : isEqualTo(P[i], P[j]) => i = j
            /\ \A i \in 1..Len(P) : isSubsetOf(P[i], X)
            /\ \E i \in 1..Len(P) : P[i].elements = <<>>
            /\ \E i \in 1..Len(P) : isEqualTo(P[i], X)

\* The pairs (a, b) of a and b in row-major order.
RowMajor(a, b) ==
    [k \in 1..(Len(a) * Len(b)) |->
        <<a[((k - 1) \div Len(b)) + 1], b[((k - 1) % Len(b)) + 1]>>]

\* C5: the Cartesian product holds exactly the m*n pairs in row-major order,
\* and its size() is m*n.
C5_CartesianProduct ==
    op = "cartesianProductWith" =>
        LET X == preObj(lhs)
            Y == preObj(rhs)
        IN  /\ Len(resCart.elements) = Len(X.elements) * Len(Y.elements)
            /\ resCart.elements = RowMajor(X.elements, Y.elements)
            /\ size(resCart) = Len(X.elements) * Len(Y.elements)

\* C6: the union holds every element of both operands exactly once and
\* nothing else: this's elements in stored order, then other's elements that
\* this does not contain, in other's stored order.
C6_Union ==
    op = "unionWith" =>
        LET X == preObj(lhs).elements
            Y == preObj(rhs).elements
            r == resSet.elements
        IN  /\ r = X \o Sub(Y, Range(X), FALSE)
            /\ Range(r) = Range(X) \cup Range(Y)
            /\ NoDuplicates(r)

\* A union where other brings two new elements behind a shared one.
C6_Witness ==
    /\ op = "unionWith"
    /\ lhs # rhs
    /\ Overlap(preA, preB) # {}
    /\ Len(resSet.elements) >= Len(preObj(lhs).elements) + 2

\* C7: the intersection is the subsequence of this's elements that other
\* contains, the difference the subsequence that other does not contain
\* (so the intersection of sets without a common element is empty).
C7_IntersectionDifference ==
    LET X == preObj(lhs).elements
        Y == preObj(rhs).elements
        r == resSet.elements
    IN  /\ op = "intersectionWith" =>
               /\ r = Sub(X, Range(Y), TRUE)
               /\ (Range(X) \cap Range(Y) = {}) => r = <<>>
        /\ op = "differenceWith" => r = Sub(X, Range(Y), FALSE)

\* A difference that keeps two elements of this and drops a shared one.
C7_Witness ==
    /\ op = "differenceWith"
    /\ lhs # rhs
    /\ Overlap(preA, preB) # {}
    /\ Len(resSet.elements) = 2

\* C8: the symmetric difference holds exactly the elements of exactly one
\* operand: this's elements not in other, then other's elements not in this.
C8_SymmetricDifference ==
    op = "symmetricDifferenceWith" =>
        LET X == preObj(lhs).elements
            Y == preObj(rhs).elements
            r == resSet.elements
        IN  /\ r = Sub(X, Range(Y), FALSE) \o Sub(Y, Range(X), FALSE)
            /\ Range(r) = (Range(X) \ Range(Y)) \cup (Range(Y) \ Range(X))

\* A symmetric difference with an element from each side and a shared one
\* left out.
C8_Witness ==
    /\ op = "symmetricDifferenceWith"
    /\ lhs # rhs
    /\ Overlap(preA, preB) # {}
    /\ Range(resSet.elements) \cap Range(preObj(lhs).elements) # {}
    /\ Range(resSet.elements) \cap Range(preObj(rhs).elements) # {}

\* C9: isSubsetOf is inclusion of the element sets, isEqualTo and operator==
\* are mutual inclusion; both depend on the element sets alone, not on
\* stored order or names.
C9_SubsetEqual ==
    LET X == preObj(lhs)
        Y == preObj(rhs)
    IN  /\ op = "isSubsetOf" =>
               resBool = (Range(X.elements) \subseteq Range(Y.elements))
        /\ op \in {"isEqualTo", "operator=="} =>
               /\ resBool = (isSubsetOf(X, Y) /\ isSubsetOf(Y, X))
               /\ resBool = (Range(X.elements) = Range(Y.elements))

\* Two sets with different names holding the same values in different order
\* were found equal.
C9_Witness ==
    /\ op = "isEqualTo"
    /\ lhs # rhs
    /\ resBool
    /\ A.name # B.name
    /\ A.elements # B.elements
    /\ Len(A.elements) >= 2

\* C10: a binary operation leaves name and elements of both operands as they
\* were, also with one set as both operands; and A.unionWith(A) equals A.
C10_OperandsUnchanged ==
    /\ op \in BinaryOps => A = preA /\ B = preB
    /\ (op = "unionWith" /\ lhs = rhs) => isEqualTo(resSet, obj(lhs))

\* A union of two different sets where other holds a value this lacks.
C10_Witness ==
    /\ op = "unionWith"
    /\ lhs # rhs
    /\ Range(preObj(rhs).elements) \ Range(preObj(lhs).elements) # {}
    /\ Len(preObj(lhs).elements) >= 1

\* C17: the symmetric difference equals, as a set, the union minus the
\* intersection.
C17_SymmetricDifferenceIdentity ==
    op = "symmetricDifferenceIdentity" => resBool

\* The identity was evaluated on two sets that share an element and each hold
\* one the other lacks.
C17_Witness ==
    /\ op = "symmetricDifferenceIdentity"
    /\ lhs # rhs
    /\ Overlap(preA, preB) # {}
    /\ Range(preA.elements) \ Range(preB.elements) # {}
    /\ Range(preB.elements) \ Range(preA.elements) # {}

\* C18: union and intersection commute up to set equality.
C18_Commutative ==
    op \in {"unionCommutes", "intersectionCommutes"} => resBool

\* Commutation of the union was evaluated on two sets whose two unions are
\* stored in different orders.
C18_Witness ==
    /\ op = "unionCommutes"
    /\ lhs # rhs
    /\ unionWith(preA, preB).elements # unionWith(preB, preA).elements
    /\ Overlap(preA, preB) # {}

----------------------------------------------------------------------------
(* Properties of DataSetCollection<T>.                                     *)

\* The name was registered when the recorded call was made.
WasRegistered(n) == \E i \in 1..Len(preSets) : preSets[i].name = n

\* The set registered under n when the recorded call was made.
WasSet(n) == preSets[CHOOSE i \in 1..Len(preSets) : preSets[i].name = n]

QueryOps == {"hasSet", "getSet", "getSetNames", "operate", "operateUnarySet",
             "cartesianProduct"}

\* C11: no two registered sets have the same name.
C11_UniqueNames ==
    \A i, j \in 1..Len(sets) : sets[i].name = sets[j].name => i = j

\* addSet was called with a registered name while two sets were registered.
C11_Witness ==
    /\ call.op = "addSet"
    /\ WasRegistered(call.nameA)
    /\ Len(preSets) = 2

\* C12: addSet with a registered name replaces that set by the new one in
\* place and touches no other; with a new name it appends.  The names are
\* always in order of first registration, and getSetNames returns them so.
C12_AddSetReplaces ==
    /\ call.op = "addSet" =>
           IF WasRegistered(call.nameA)
           THEN /\ Len(sets) = Len(preSets)
                /\ \A j \in 1..Len(sets) :
                       sets[j] = IF preSets[j].name = call.nameA
                                 THEN call.value
                                 ELSE preSets[j]
           ELSE sets = Append(preSets, call.value)
    /\ Len(sets) = Len(registered)
    /\ \A i \in 1..Len(sets) : sets[i].name = registered[i]
    /\ call.op = "getSetNames" => ret.value = registered

\* The first of two registered sets was overwritten by a non-empty set that
\* lacks one of the old elements.
C12_Witness ==
    /\ call.op = "addSet"
    /\ Len(preSets) = 2
    /\ preSets[1].name = call.nameA
    /\ call.value.elements # <<>>
    /\ Range(preSets[1].elements) \ Range(call.value.elements) # {}

\* C13: insertInto an unregistered name throws NotFound and leaves the
\* collection as it was (no set created); insertInto a registered name adds
\* the value to that set if it is not in it, and leaves the other sets alone.
C13_InsertInto ==
    call.op = "insertInto" =>
        IF ~WasRegistered(call.nameA)
        THEN /\ ret.thrown
             /\ ret.what = "Set '" \o call.nameA \o "' not found."
             /\ sets = preSets
        ELSE /\ ~ret.thrown
             /\ Len(sets) = Len(preSets)
             /\ \A j \in 1..Len(sets) :
                    IF preSets[j].name = call.nameA
                    THEN /\ sets[j].name = call.nameA
                         /\ sets[j].elements =
                                IF call.value \in Range(preSets[j].elements)
                                THEN preSets[j].elements
                                ELSE Append(preSets[j].elements, call.value)
                    ELSE sets[j] = preSets[j]

\* insertInto failed on a collection of two sets.
C13_Witness ==
    /\ call.op = "insertInto"
    /\ ret.thrown
    /\ Len(sets) = 2

\* C14: getSet, operate, operateUnarySet and cartesianProduct throw the
\* not-found error when a name is unregistered; operate and operateUnarySet
\* throw the unsupported-operation error for an unrecognized keyword when the
\* names are registered; a throwing call returns nothing.
C14_Errors ==
    /\ (call.op = "getSet" /\ ~WasRegistered(call.nameA)) =>
           ret.thrown /\ ret.what = "Set '" \o call.nameA \o "' not found."
    /\ (call.op \in {"operate", "cartesianProduct"}
            /\ (~WasRegistered(call.nameA) \/ ~WasRegistered(call.nameB))) =>
           /\ ret.thrown
           /\ ret.what \in {"Set '" \o n \o "' not found." :
                                n \in {call.nameA, call.nameB}}
    /\ (call.op = "operateUnarySet" /\ ~WasRegistered(call.nameA)) =>
           ret.thrown /\ ret.what = "Set '" \o call.nameA \o "' not found."
    /\ (call.op = "operate" /\ WasRegistered(call.nameA)
            /\ WasRegistered(call.nameB)
            /\ call.keyword \notin BinaryKeywords) =>
           /\ ret.thrown
           /\ ret.what = "Invalid operation: '" \o call.keyword \o "'"
    /\ (call.op = "operateUnarySet" /\ WasRegistered(call.nameA)
            /\ call.keyword # "powerset") =>
           /\ ret.thrown
           /\ ret.what = "Unsupported unary operation: '"
                             \o call.keyword \o "'"
    /\ (call.op \in QueryOps /\ ret.thrown) => ret.value = 0

\* operate was called with "xor" on two registered names and threw.
C14_Witness ==
    /\ call.op = "operate"
    /\ call.keyword = "xor"
    /\ WasRegistered(call.nameA)
    /\ WasRegistered(call.nameB)
    /\ call.nameA # call.nameB
    /\ ret.thrown

\* The Set operation a keyword stands for.
SetOperation(keyword, setA, setB) ==
    CASE keyword = "union" -> unionWith(setA, setB)
      [] keyword = "intersection" -> intersectionWith(setA, setB)
      [] keyword = "difference" -> differenceWith(setA, setB)
      [] keyword = "symmetric_difference" ->
             symmetricDifferenceWith(setA, setB)

\* C15: operate on registered names with a recognized keyword returns the
\* elements of the Set operation on the two registered sets, first operand
\* nameA, under the name "(nameA op nameB)".
C15_Operate ==
    (call.op = "operate" /\ WasRegistered(call.nameA)
         /\ WasRegistered(call.nameB) /\ call.keyword \in BinaryKeywords) =>
        /\ ~ret.thrown
        /\ ret.value.elements =
               SetOperation(call.keyword, WasSet(call.nameA),
                            WasSet(call.nameB)).elements
        /\ ret.value.name =
               "(" \o call.nameA \o " " \o call.keyword \o " "
                   \o call.nameB \o ")"

\* A difference of two registered sets that is not empty and differs from the
\* difference taken the other way round.
C15_Witness ==
    /\ call.op = "operate"
    /\ call.keyword = "difference"
    /\ ~ret.thrown
    /\ call.nameA # call.nameB
    /\ ret.value.elements # <<>>
    /\ ret.value.elements #
           differenceWith(WasSet(call.nameB), WasSet(call.nameA)).elements

\* C16: the query operations leave the collection as it was, whether they
\* return or throw, and so do an insert into and a rename of the set getSet
\* returned.
C16_QueriesPure ==
    (call.op \in QueryOps \cup {"insertIntoReturned", "renameReturned"}) =>
        sets = preSets

\* A value the registered set lacks was inserted into the set getSet
\* returned for it.
C16_Witness ==
    /\ call.op = "insertIntoReturned"
    /\ Len(sets) = 2
    /\ call.value \notin Range(WasSet(call.nameA).elements)
    /\ call.value \in Range(ret.value.elements)

\* C20: the names are resolved before the keyword is examined, nameA first:
\* an unregistered nameA is the one reported, whatever nameB and the keyword
\* are; an unregistered nameB is reported whatever the keyword is.
C20_ErrorPrecedence ==
    /\ (call.op \in {"operate", "operateUnarySet", "cartesianProduct"}
            /\ ~WasRegistered(call.nameA)) =>
           ret.thrown /\ ret.what = "Set '" \o call.nameA \o "' not found."
    /\ (call.op \in {"operate", "cartesianProduct"}
            /\ WasRegistered(call.nameA) /\ ~WasRegistered(call.nameB)) =>
           ret.thrown /\ ret.what = "Set '" \o call.nameB \o "' not found."

\* operate was called with two different unregistered names and "xor".
C20_Witness ==
    /\ call.op = "operate"
    /\ call.keyword = "xor"
    /\ ~WasRegistered(call.nameA)
    /\ ~WasRegistered(call.nameB)
    /\ call.nameA # call.nameB
    /\ Len(preSets) >= 1
    /\ ret.thrown

----------------------------------------------------------------------------
(* Properties of the query phase.                                          *)

IsCommand(l) == l.word \notin {"", "#", "Q"}

\* The line at which the loop ends: the first "Q", or the last line.
StopLine ==
    LET q == {i \in 1..Len(script) : script[i].word = "Q"}
    IN  IF q = {} THEN Len(script)
        ELSE CHOOSE i \in q : \A j \in q : i <= j

\* The numbers of the command lines among the first n lines, ascending.
CommandLines(n) ==
    SelectSeq([i \in 1..n |-> i], LAMBDA i : IsCommand(script[i]))

IsRegistered(n) == \E i \in 1..Len(sets) : sets[i].name = n

\* The command names an unregistered set or is an unknown word.
Fails(l) ==
    \/ l.word \in BinaryWords /\ (~IsRegistered(l.nameA) \/ ~IsRegistered(l.nameB))
    \/ l.word \in UnaryWords /\ ~IsRegistered(l.nameA)
    \/ l.word \notin BinaryWords \cup UnaryWords

\* The program has not ended on an exception; every command line read so far
\* has written exactly one record, in the order of the lines; a failing
\* command wrote an error message and a succeeding one wrote its result; the
\* collection is as it was before the last command; and the loop ends at the
\* first "Q" or at the end of the file, not earlier.
ScriptInOrder ==
    /\ pc \in {"query", "done"}
    /\ lineNo <= StopLine
    /\ [i \in 1..Len(out) |-> out[i].line] = CommandLines(lineNo)
    /\ \A i \in 1..Len(out) :
           IF Fails(script[out[i].line])
           THEN out[i].stream = "cerr" /\ out[i].text # ""
           ELSE out[i].stream = "cout"
    /\ sets = preSets
    /\ sets \in Phase1Collections
    /\ pc = "done" => lineNo = StopLine

\* The last command read has failed.
FailedNow == out # <<>> /\ out[Len(out)].stream = "cerr"

\* The loop has ended with every line up to the first "Q" processed.
Finished ==
    /\ pc = "done"
    /\ lineNo = StopLine
    /\ Len(out) = Len(CommandLines(StopLine))

\* C19: a failing command writes an error message, leaves the collection
\* unchanged and does not end the script: every later line up to the end of
\* the file or a line "Q" is processed, in order.
C19_ScriptContinues == []ScriptInOrder /\ (FailedNow ~> Finished)

\* A command naming an unregistered set failed, the command after it
\* succeeded, and the loop has ended.
C19_Witness ==
    /\ pc = "done"
    /\ Len(out) = 2
    /\ out[1].stream = "cerr"
    /\ out[2].stream = "cout"
    /\ Fails(script[1])
    /\ script[1].word # "xor"

====
